---- MODULE Spec2Model ----
(***************************************************************************)
(* A model of bevy_v4l (src/src/lib.rs): the Input/Output devices, the two *)
(* scheduler systems spawn_io_tasks (PreUpdate) and poll_io_tasks (Update),*)
(* the work units they spawn on the compute task pool, and the drop of a   *)
(* Device.                                                                 *)
(*                                                                         *)
(* Bytes of a captured frame are represented by the frame's number: the    *)
(* frame captured by the unit spawned in cycle N decodes to pixels whose   *)
(* R, G and B bytes are all N.  255 is the byte the buffers are created    *)
(* with.                                                                   *)
(***************************************************************************)
EXTENDS Integers, Sequences, FiniteSets, TLC

\* ------------------------------------------------------------------ bounds
\* Number of scheduler cycles (PreUpdate + Update) the model runs.
MaxCycles == 3

\* Longest source buffer and largest size the decode loop is called with.
MaxSrcLen == 8
MaxDstLen == 9

\* ------------------------------------------------------- the configuration
\* examples/forward.rs: one capture device whose image is also the image of
\* the output device.  "img2" is an image of the caller's own that
\* Output::new may be given instead.
Inputs == {"i1"}
Outputs == {"o1"}
Devices == Inputs \cup Outputs

\* Query iteration order of the two loops of each system.
InputOrder == <<"i1">>
OutputOrder == <<"o1">>

Images == {"img1", "img2"}

\* The format codes: the one stream_read / stream_write convert, the one
\* they name without converting, and one they do not name.
Formats == {"YUYV", "IYU2", "MJPG"}

\* Frame geometry (format.width, format.height) of every device.
Width == 2
Height == 1

\* size.width * size.height * 4
BufferSize == Width * Height * 4

\* vec![255_u8; n]
White(n) == [i \in 1..n |-> 255]

\* Length in bytes of one captured YUYV frame (2 bytes per pixel).
CaptureLen == Width * Height * 2

VARIABLES
    cycle,      \* number of the current scheduler cycle
    phase,      \* "idle": before PreUpdate; "spawned": between PreUpdate and Update
    alive,      \* the Devices (entities) that exist
    task,       \* Device.task: "None", or Some(task) by the task's state
    wk,         \* position of the work unit of each Device
    lock,       \* holder of Device.io's Mutex
    iobuf,      \* Io.buffer
    image,      \* Assets<Image>: Image.data of every handle
    present,    \* handles that images.get_mut finds
    streambuf,  \* the mmap buffer of the output stream and its metadata
    lastResult, \* what the last finished unit's stream_read/stream_write returned
    disconnected, \* devices whose hardware call fails from now on
    released,   \* per Device, the resources released so far, in order
    crashed,    \* a system panicked
    blocked,    \* the control thread waits on a Mutex held by a work unit
    inflight,   \* per Device, units spawned and not yet reaped
    unitCycle,  \* per Device, the cycle its latest unit was spawned in
    shown,      \* per Input, the frames a reap has made presentable
    reshown,    \* per Input, a reap presented a frame that was presented before
    lastGood,   \* per Input, the last frame a unit decoded (255: none yet)
    fourcc,     \* Device.format.fourcc.repr
    outImage,   \* the image handle Output::new was given
    ctor,       \* per Device, how its constructor ended ("none": not called)
    unitSize,   \* per Device, the byte count its latest unit was spawned with
    copied,     \* per Output, the bytes the latest reap copied (<<>>: none yet)
    dec         \* one call of the decode loop: its inputs and what it did

vars == <<cycle, phase, alive, task, wk, lock, iobuf, image, present, streambuf,
          lastResult, disconnected, released, crashed, blocked, inflight,
          unitCycle, shown, reshown, lastGood,
          fourcc, outImage, ctor, unitSize, copied, dec>>

\* Device.image: Input::new adds its own image; Output::new is given one.
ImageOf(d) == IF d \in Outputs THEN outImage ELSE "img1"

\* Device.format.fourcc.repr
Fourcc(d) == fourcc[d]

\* ------------------------------------------------------------ conversions
\* The pixels the iterator chain of stream_read yields from srclen bytes:
\* two per whole 4-byte macropixel, a partial last macropixel is dropped.
DecodedPixels(srclen) == 2 * (srclen \div 4)

\* The bytes of a pixel that the loop of stream_read writes at 0-based index
\* i: io.buffer[i..i + 3].
\* A pixel copy that writes four bytes, the alpha byte included.
MutPixelSliceWithAlpha(i) == {i, i + 1, i + 2, i + 3}

\* The indices io.buffer[i..i + 3] names: the pixel's three colour bytes.
PixelSlice(i) == {i, i + 1, i + 2}

\* The `for (i, pixel) in rgb` loop of stream_read from pixel n on, w the
\* 0-based indices written so far: stop at the first pixel with 4n >= size;
\* the slice io.buffer[4n..4n+3] panics when it ends beyond the buffer.
RECURSIVE DecodeLoop(_, _, _, _, _)
DecodeLoop(n, npix, size, buflen, w) ==
    IF n >= npix \/ n * 4 >= size THEN [written |-> w, panic |-> FALSE]
    ELSE IF n * 4 + 3 > buflen THEN [written |-> w, panic |-> TRUE]
    ELSE DecodeLoop(n + 1, npix, size, buflen, w \cup PixelSlice(n * 4))

\* stream_read, the YUYV arm, on a buffer of buflen bytes.
DecodeRun(srclen, size, buflen) ==
    DecodeLoop(0, DecodedPixels(srclen), size, buflen, {})

\* The buffer after the YUYV arm of stream_read: the written bytes hold the
\* frame's pixels, the others are as they were.
DecodeYuyv(buf, frame, srclen, size) ==
    LET w == DecodeRun(srclen, size, Len(buf)).written
    IN  [k \in 1..Len(buf) |-> IF (k - 1) \in w THEN frame ELSE buf[k]]

\* stream_write, the YUYV arm: chunks_exact(8) of the buffer, the alpha bytes
\* skipped, each pair of pixels converted to one macropixel.
EncodeYuyv(buf) ==
    [c \in 1..(Len(buf) \div 8) |->
        <<"yuyv", SubSeq(buf, 8 * c - 7, 8 * c - 5), SubSeq(buf, 8 * c - 3, 8 * c - 1)>>]

\* An mmap output buffer nothing was written to.
EmptyStreamBuf == [data |-> <<>>, field |-> -1, bytesused |-> -1]

\* The decode loop not called.
DecIdle == [srclen |-> 0, size |-> 0, buflen |-> 0, done |-> FALSE,
            written |-> {}, read |-> 0, panic |-> FALSE]

\* What every initial state shares: nothing spawned, buffers as created.
InitCommon ==
    /\ cycle = 0
    /\ phase = "idle"
    /\ task = [d \in Devices |-> "None"]
    /\ wk = [d \in Devices |-> "none"]
    /\ lock = [d \in Devices |-> "free"]
    /\ iobuf = [d \in Devices |-> White(BufferSize)]
    /\ streambuf = [d \in Outputs |-> EmptyStreamBuf]
    /\ lastResult = [d \in Devices |-> "none"]
    /\ disconnected = {}
    /\ released = [d \in Devices |-> <<>>]
    /\ crashed = FALSE
    /\ blocked = FALSE
    /\ inflight = [d \in Devices |-> 0]
    /\ unitCycle = [d \in Devices |-> 0]
    /\ shown = [d \in Inputs |-> {}]
    /\ reshown = [d \in Inputs |-> FALSE]
    /\ lastGood = [d \in Inputs |-> 255]
    /\ unitSize = [d \in Devices |-> 0]
    /\ copied = [d \in Outputs |-> <<>>]

\* After setup of examples/forward.rs: Input::new and Output::new succeeded,
\* the output on the input's image and with the input's format.
Init ==
    /\ InitCommon
    /\ alive = Devices
    /\ ctor = [d \in Devices |-> "Ok"]
    /\ \E f \in Formats : fourcc = [d \in Devices |-> f]
    /\ outImage = "img1"
    /\ image = [h \in Images |-> IF h = "img1" THEN White(BufferSize) ELSE <<>>]
    /\ present = {"img1"}
    /\ dec = DecIdle

\* ------------------------------------------------------------ spawn phase
\* device.task.is_some()
TaskIsSome(t) == t # "None"

\* The spawn phase without its check of the task slot.
MutTaskNeverUnfinished(t) == FALSE

\* "task is unfinished": the spawn phase's check of the task slot
TaskUnfinished(t) == t # "None"

\* images.get_mut(device.image.clone()) finds the image
ImageFound(d, pr) == ImageOf(d) \in pr

\* image.width() * image.height() * 4 of the image the spawn phase found
UnitSize(d) == Len(image[ImageOf(d)])

\* A spawn that drops the task handle instead of storing it in the slot.
MutSpawnUnitDropsHandle(s, d, c) ==
    [s EXCEPT !.wk[d] = "queued",
              !.inflight[d] = @ + 1, !.unitCycle[d] = c,
              !.unitSize[d] = UnitSize(d)]

\* ComputeTaskPool::get().spawn(..); device.task = Some(task)
SpawnUnit(s, d, c) ==
    [s EXCEPT !.task[d] = "Pending", !.wk[d] = "queued",
              !.inflight[d] = @ + 1, !.unitCycle[d] = c,
              !.unitSize[d] = UnitSize(d)]

\* One `for` loop of spawn_io_tasks over the devices ds.  The two early exits
\* are `return`s: they leave the system, not the iteration.
RECURSIVE SpawnLoop(_, _, _, _)
SpawnLoop(ds, s, c, pr) ==
    IF ds = <<>> THEN s
    ELSE LET d == Head(ds)
         IN  IF ~ImageFound(d, pr) THEN [s EXCEPT !.ret = TRUE]
             ELSE IF TaskUnfinished(s.task[d]) THEN [s EXCEPT !.ret = TRUE]
             ELSE SpawnLoop(Tail(ds), SpawnUnit(s, d, c), c, pr)

\* The entities a Query iterates: the devices that exist, in query order.
Iter(order, al) == SelectSeq(order, LAMBDA d : d \in al)

\* fn spawn_io_tasks: the loop over the inputs, then the loop over the outputs.
SpawnSystem(s, c, al, pr) ==
    LET s1 == SpawnLoop(Iter(InputOrder, al), s, c, pr)
    IN  IF s1.ret THEN s1 ELSE SpawnLoop(Iter(OutputOrder, al), s1, c, pr)

\* PreUpdate of one cycle.
SpawnPhase ==
    /\ ~crashed /\ ~blocked
    /\ phase = "idle"
    /\ cycle < MaxCycles
    /\ LET s0 == [task |-> task, wk |-> wk, inflight |-> inflight,
                  unitCycle |-> unitCycle, unitSize |-> unitSize, ret |-> FALSE]
           s1 == SpawnSystem(s0, cycle + 1, alive, present)
       IN  /\ task' = s1.task
           /\ wk' = s1.wk
           /\ inflight' = s1.inflight
           /\ unitCycle' = s1.unitCycle
           /\ unitSize' = s1.unitSize
    /\ cycle' = cycle + 1
    /\ phase' = "spawned"
    /\ UNCHANGED <<alive, lock, iobuf, image, present, streambuf, lastResult,
                   disconnected, released, crashed, blocked, shown, reshown, lastGood,
                   fourcc, outImage, ctor, copied, dec>>

\* ------------------------------------------------------------- reap phase
\* What a second poll of a task whose output was already taken may do: the
\* Future contract leaves it open (async-task panics "Task polled after
\* completion").
RepollOutcomes == {"Panic", "None", "Some"}

\* A readiness check that reports every task as completed.
MutCheckReadyEager(t, rp) == "Some"

\* futures::check_ready(&mut task): one poll of the task.
CheckReady(t, rp) ==
    CASE t = "Pending" -> "None"
      [] t = "Ready" -> "Some"
      [] OTHER -> rp

\* The frame a buffer shows (the R byte of its first pixel); 255: none.
FrameOf(buf) == buf[1]

\* std::mem::swap(&mut image.data, &mut io.buffer); device.task = None
SwapInput(s, d) ==
    LET h == ImageOf(d)
        f == FrameOf(s.iobuf[d])
    IN  [s EXCEPT !.image[h] = s.iobuf[d], !.iobuf[d] = s.image[h],
                  !.task[d] = "None", !.inflight[d] = @ - 1,
                  !.shown[d] = IF f = 255 THEN @ ELSE @ \cup {f},
                  !.reshown[d] = @ \/ f \in s.shown[d]]

\* An Output reap that clears the slot without copying the image's data.
MutCloneOutputNoCopy(s, d) ==
    [s EXCEPT !.copied[d] = s.image[ImageOf(d)],
              !.task[d] = "None", !.inflight[d] = @ - 1]

\* io.buffer = image.data.clone(); device.task = None
CloneOutput(s, d) ==
    [s EXCEPT !.iobuf[d] = s.image[ImageOf(d)],
              !.copied[d] = s.image[ImageOf(d)],
              !.task[d] = "None", !.inflight[d] = @ - 1]

\* A reap that swaps or copies whenever the slot holds a task, without the
\* readiness check and without taking the lock.
MutReapDeviceUnchecked(s, d, rp, pr, lk) ==
    IF ~TaskIsSome(s.task[d]) \/ ~ImageFound(d, pr) THEN s
    ELSE IF d \in Inputs THEN SwapInput(s, d)
    ELSE CloneOutput(s, d)

\* The body of poll_io_tasks's loops for one device.
ReapDevice(s, d, rp, pr, lk) ==
    IF ~TaskIsSome(s.task[d]) THEN s
    ELSE LET r == CheckReady(s.task[d], rp)
         IN  IF r = "Panic" THEN [s EXCEPT !.crashed = TRUE]
             ELSE IF r = "None" THEN s
             ELSE LET s1 == [s EXCEPT !.task[d] = "Taken"]
                  IN  IF ~ImageFound(d, pr) THEN s1
                      ELSE IF lk[d] # "free" THEN [s1 EXCEPT !.blocked = TRUE]
                      ELSE IF d \in Inputs THEN SwapInput(s1, d)
                      ELSE CloneOutput(s1, d)

RECURSIVE ReapLoop(_, _, _, _, _)
ReapLoop(ds, s, rp, pr, lk) ==
    IF ds = <<>> \/ s.crashed \/ s.blocked THEN s
    ELSE ReapLoop(Tail(ds), ReapDevice(s, Head(ds), rp, pr, lk), rp, pr, lk)

\* fn poll_io_tasks: the loop over the inputs, then the loop over the outputs.
PollSystem(s, rp, al, pr, lk) ==
    ReapLoop(Iter(OutputOrder, al),
             ReapLoop(Iter(InputOrder, al), s, rp, pr, lk), rp, pr, lk)

\* Update of one cycle.
ReapPhase ==
    /\ ~crashed /\ ~blocked
    /\ phase = "spawned"
    /\ \E rp \in RepollOutcomes :
        LET s0 == [task |-> task, iobuf |-> iobuf, image |-> image,
                   inflight |-> inflight, shown |-> shown, reshown |-> reshown,
                   copied |-> copied, crashed |-> FALSE, blocked |-> FALSE]
            s1 == PollSystem(s0, rp, alive, present, lock)
        IN  /\ task' = s1.task
            /\ iobuf' = s1.iobuf
            /\ image' = s1.image
            /\ inflight' = s1.inflight
            /\ shown' = s1.shown
            /\ reshown' = s1.reshown
            /\ copied' = s1.copied
            /\ crashed' = s1.crashed
            /\ blocked' = s1.blocked
    /\ phase' = "idle"
    /\ UNCHANGED <<cycle, alive, wk, lock, present, streambuf, lastResult,
                   disconnected, released, unitCycle, lastGood,
                   fourcc, outImage, ctor, unitSize, dec>>

\* ------------------------------------------------------------- work units
\* The frame the capture stream delivers to the unit spawned in cycle c.
CapturedFrame(c) == c

\* A stream_read that decodes into the image's data instead of io.buffer.
MutStreamReadIntoImage(s, d, ok, size) ==
    IF ~ok THEN [s EXCEPT !.lastResult[d] = "Err"]
    ELSE [s EXCEPT !.image[ImageOf(d)] =
                       DecodeYuyv(@, CapturedFrame(s.unitCycle[d]), CaptureLen, size),
                   !.lastGood[d] = CapturedFrame(s.unitCycle[d]),
                   !.lastResult[d] = "Ok"]

\* fn stream_read.  ok: CaptureStream::next returned Ok; on Err the `?`
\* returns before the buffer is touched.
StreamRead(s, d, ok, size) ==
    IF ~ok THEN [s EXCEPT !.lastResult[d] = "Err"]
    ELSE IF Fourcc(d) = "YUYV"
    THEN [s EXCEPT !.iobuf[d] = DecodeYuyv(@, CapturedFrame(s.unitCycle[d]),
                                           CaptureLen, size),
                   !.lastGood[d] = CapturedFrame(s.unitCycle[d]),
                   !.lastResult[d] =
                       IF DecodeRun(CaptureLen, size, Len(s.iobuf[d])).panic
                       THEN "Panic" ELSE "Ok"]
    ELSE [s EXCEPT !.lastResult[d] = "Ok"]

\* A stream_write that encodes whatever the format code is.
MutStreamWriteAnyFormat(s, d, ok, size) ==
    IF ~ok THEN [s EXCEPT !.lastResult[d] = "Err"]
    ELSE [s EXCEPT !.streambuf[d] = [data |-> EncodeYuyv(s.iobuf[d]),
                                     field |-> 0,
                                     bytesused |-> size * 3],
                   !.lastResult[d] = "Ok"]

\* fn stream_write.  ok: OutputStream::next returned Ok.
StreamWrite(s, d, ok, size) ==
    IF ~ok THEN [s EXCEPT !.lastResult[d] = "Err"]
    ELSE IF Fourcc(d) = "YUYV"
    THEN [s EXCEPT !.streambuf[d] = [data |-> EncodeYuyv(s.iobuf[d]),
                                     field |-> 0,
                                     bytesused |-> size * 3],
                   !.lastResult[d] = "Ok"]
    ELSE [s EXCEPT !.lastResult[d] = "Ok"]

\* The unit's closure starts on a pool thread: io.lock(), then the blocking
\* hardware call inside stream_read / stream_write.
WorkerStart(d) ==
    /\ ~crashed
    /\ wk[d] = "queued"
    /\ lock[d] = "free"
    /\ wk' = [wk EXCEPT ![d] = "io"]
    /\ lock' = [lock EXCEPT ![d] = "worker"]
    /\ UNCHANGED <<cycle, phase, alive, task, iobuf, image, present, streambuf,
                   lastResult, disconnected, released, crashed, blocked,
                   inflight, unitCycle, shown, reshown, lastGood,
                   fourcc, outImage, ctor, unitSize, copied, dec>>

\* The hardware call returns (it may never), the conversion runs, the guard
\* and the closure's Arc are dropped and the task completes.
WorkerReturn(d) ==
    /\ ~crashed
    /\ wk[d] = "io"
    /\ \E ok \in BOOLEAN :
        /\ d \in disconnected => ~ok
        /\ LET s0 == [iobuf |-> iobuf, image |-> image, streambuf |-> streambuf,
                      lastResult |-> lastResult, unitCycle |-> unitCycle,
                      lastGood |-> lastGood]
               s1 == IF d \in Inputs THEN StreamRead(s0, d, ok, unitSize[d])
                     ELSE StreamWrite(s0, d, ok, unitSize[d])
           IN  /\ iobuf' = s1.iobuf
               /\ image' = s1.image
               /\ streambuf' = s1.streambuf
               /\ lastResult' = s1.lastResult
               /\ lastGood' = s1.lastGood
    /\ wk' = [wk EXCEPT ![d] = "none"]
    /\ lock' = [lock EXCEPT ![d] = "free"]
    /\ task' = [task EXCEPT ![d] = IF @ = "Pending" THEN "Ready" ELSE @]
    /\ released' = [released EXCEPT ![d] = IF d \in alive THEN @ ELSE Append(@, "stream")]
    /\ UNCHANGED <<cycle, phase, alive, present, disconnected, crashed, blocked,
                   inflight, unitCycle, shown, reshown,
                   fourcc, outImage, ctor, unitSize, copied, dec>>

\* ------------------------------------------------------------ environment
\* The capture hardware goes away: every later capture call fails.
Disconnect(d) ==
    /\ ~crashed
    /\ d \in Inputs
    /\ d \notin disconnected
    /\ disconnected' = disconnected \cup {d}
    /\ UNCHANGED <<cycle, phase, alive, task, wk, lock, iobuf, image, present,
                   streambuf, lastResult, released, crashed, blocked, inflight,
                   unitCycle, shown, reshown, lastGood,
                   fourcc, outImage, ctor, unitSize, copied, dec>>

\* The application takes an image out of Assets<Image> ...
RemoveImage(h) ==
    /\ ~crashed
    /\ h \in present
    /\ present' = present \ {h}
    /\ UNCHANGED <<cycle, phase, alive, task, wk, lock, iobuf, image, streambuf,
                   lastResult, disconnected, released, crashed, blocked,
                   inflight, unitCycle, shown, reshown, lastGood,
                   fourcc, outImage, ctor, unitSize, copied, dec>>

\* ... and puts it back under the same handle.
InsertImage(h) ==
    /\ ~crashed
    /\ h \notin present
    /\ image[h] # <<>>
    /\ present' = present \cup {h}
    /\ UNCHANGED <<cycle, phase, alive, task, wk, lock, iobuf, image, streambuf,
                   lastResult, disconnected, released, crashed, blocked,
                   inflight, unitCycle, shown, reshown, lastGood,
                   fourcc, outImage, ctor, unitSize, copied, dec>>

\* ------------------------------------------------------------------- drop
\* The fields of struct Device drop in declaration order: task (dropping a
\* Task cancels it: a unit that has not started never runs, one that is
\* inside its closure runs on), then io (one reference of the Arc: Io and
\* its stream are freed by whoever drops the last one), then dev.
DropDevice(d, w) ==
    IF w \in {"queued", "io"} THEN <<"dev">> ELSE <<"stream", "dev">>

\* The entity that owns the Device is despawned.
Destroy(d) ==
    /\ ~crashed
    /\ d \in alive
    /\ alive' = alive \ {d}
    /\ task' = [task EXCEPT ![d] = "None"]
    /\ wk' = [wk EXCEPT ![d] = IF @ = "queued" THEN "cancelled" ELSE @]
    /\ released' = [released EXCEPT ![d] = DropDevice(d, wk[d])]
    /\ inflight' = [inflight EXCEPT ![d] = 0]
    /\ UNCHANGED <<cycle, phase, lock, iobuf, image, present, streambuf,
                   lastResult, disconnected, crashed, blocked, unitCycle,
                   shown, reshown, lastGood,
                   fourcc, outImage, ctor, unitSize, copied, dec>>

\* The executor drops the closure of a cancelled unit, and with it the last
\* reference to Io.
DropCancelled(d) ==
    /\ ~crashed
    /\ wk[d] = "cancelled"
    /\ wk' = [wk EXCEPT ![d] = "none"]
    /\ released' = [released EXCEPT ![d] = Append(@, "stream")]
    /\ UNCHANGED <<cycle, phase, alive, task, lock, iobuf, image, present,
                   streambuf, lastResult, disconnected, crashed, blocked,
                   inflight, unitCycle, shown, reshown, lastGood,
                   fourcc, outImage, ctor, unitSize, copied, dec>>

Next ==
    \/ SpawnPhase
    \/ ReapPhase
    \/ \E d \in Devices : WorkerStart(d)
    \/ \E d \in Devices : WorkerReturn(d)
    \/ \E d \in Devices : Disconnect(d)
    \/ \E h \in Images : RemoveImage(h)
    \/ \E h \in Images : InsertImage(h)
    \/ \E d \in Devices : Destroy(d)
    \/ \E d \in Devices : DropCancelled(d)

Spec == Init /\ [][Next]_vars

\* ------------------------------------------------------------ construction
\* The fallible steps of a constructor, in order: v4l::Device::new, then
\* dev.format() (Input) or set_format (Output), then MmapStream::with_buffers.
NewFailures(d) ==
    IF d \in Inputs THEN {"open", "format", "stream"}
    ELSE {"open", "set_format", "stream"}

\* An Input::new that adds the image before it allocates the stream.
MutInputNewAddsImageFirst(s, d, fail, f) ==
    IF fail \in {"open", "format"} THEN [s EXCEPT !.ctor[d] = "Err"]
    ELSE IF fail = "stream"
    THEN [s EXCEPT !.image["img1"] = White(BufferSize),
                   !.present = @ \cup {"img1"},
                   !.ctor[d] = "Err"]
    ELSE [s EXCEPT !.image["img1"] = White(BufferSize),
                   !.present = @ \cup {"img1"},
                   !.iobuf[d] = White(BufferSize),
                   !.fourcc[d] = f,
                   !.alive = @ \cup {d},
                   !.ctor[d] = "Ok"]

\* Input::new.  fail: the step whose `?` returns the error ("none": all
\* succeed); f: the format code dev.format() reports.  buffer1 becomes the
\* image's data, buffer2 io.buffer.
InputNewOutcome(s, d, fail, f) ==
    IF fail # "none" THEN [s EXCEPT !.ctor[d] = "Err"]
    ELSE [s EXCEPT !.image["img1"] = White(BufferSize),
                   !.present = @ \cup {"img1"},
                   !.iobuf[d] = White(BufferSize),
                   !.fourcc[d] = f,
                   !.alive = @ \cup {d},
                   !.ctor[d] = "Ok"]

\* Output::new on image h with the format of Input i.  buffer2 becomes
\* io.buffer; the image is the caller's and is not looked at.
OutputNewOutcome(s, d, fail, h, i) ==
    IF fail # "none" THEN [s EXCEPT !.ctor[d] = "Err"]
    ELSE [s EXCEPT !.iobuf[d] = White(BufferSize),
                   !.fourcc[d] = s.fourcc[i],
                   !.outImage = h,
                   !.alive = @ \cup {d},
                   !.ctor[d] = "Ok"]

\* The Startup system runs before the first cycle.
AtStartup == cycle = 0 /\ phase = "idle" /\ ~crashed

\* The state a constructor reads and writes.
NewState ==
    [alive |-> alive, ctor |-> ctor, image |-> image, present |-> present,
     fourcc |-> fourcc, iobuf |-> iobuf, outImage |-> outImage]

\* The state after a constructor call is s.
NewDone(s) ==
    /\ alive' = s.alive
    /\ ctor' = s.ctor
    /\ image' = s.image
    /\ present' = s.present
    /\ fourcc' = s.fourcc
    /\ iobuf' = s.iobuf
    /\ outImage' = s.outImage
    /\ UNCHANGED <<cycle, phase, task, wk, lock, streambuf, lastResult,
                   disconnected, released, crashed, blocked, inflight,
                   unitCycle, shown, reshown, lastGood, unitSize, copied, dec>>

\* setup calls Input::new.
InputNew(d) ==
    /\ AtStartup
    /\ d \in Inputs
    /\ ctor[d] # "Ok"
    /\ \E fail \in NewFailures(d) \cup {"none"}, f \in Formats :
           NewDone(InputNewOutcome(NewState, d, fail, f))

\* The size of an image the application makes for itself.
CallerImageSize == 2 * BufferSize

\* The application adds an image of its own to Assets<Image>.
CallerAddsImage ==
    /\ AtStartup
    /\ image["img2"] = <<>>
    /\ \A d \in Outputs : ctor[d] # "Ok"
    /\ image' = [image EXCEPT !["img2"] = White(CallerImageSize)]
    /\ present' = present \cup {"img2"}
    /\ UNCHANGED <<cycle, phase, alive, task, wk, lock, iobuf, streambuf,
                   lastResult, disconnected, released, crashed, blocked,
                   inflight, unitCycle, shown, reshown, lastGood,
                   fourcc, outImage, ctor, unitSize, copied, dec>>

\* setup calls Output::new with the format of an Input it has made, on the
\* application's own image when it has added one, else on the Input's.
OutputNew(d) ==
    /\ AtStartup
    /\ d \in Outputs
    /\ ctor[d] # "Ok"
    /\ \E i \in Inputs, fail \in NewFailures(d) \cup {"none"} :
           /\ ctor[i] = "Ok"
           /\ NewDone(OutputNewOutcome(NewState, d, fail,
                   IF image["img2"] # <<>> THEN "img2" ELSE "img1", i))

\* Before setup: no Device, an empty image store.
InitSetup ==
    /\ InitCommon
    /\ alive = {}
    /\ ctor = [d \in Devices |-> "none"]
    /\ fourcc = [d \in Devices |-> "YUYV"]
    /\ outImage = "img1"
    /\ image = [h \in Images |-> <<>>]
    /\ present = {}
    /\ dec = DecIdle

NextSetup ==
    \/ Next
    \/ \E d \in Devices : InputNew(d)
    \/ \E d \in Devices : OutputNew(d)
    \/ CallerAddsImage

SpecSetup == InitSetup /\ [][NextSetup]_vars

\* ------------------------------------------------- the decode loop alone
\* The buffers the decode loop is tried on: one of the devices' size, one
\* longer.
DecodeBufLens == {BufferSize, BufferSize + 4}

\* The devices as after Init, and one call of the decode loop to make: any
\* source length, any size.
InitDecode ==
    /\ InitCommon
    /\ alive = Devices
    /\ ctor = [d \in Devices |-> "Ok"]
    /\ fourcc = [d \in Devices |-> "YUYV"]
    /\ outImage = "img1"
    /\ image = [h \in Images |-> IF h = "img1" THEN White(BufferSize) ELSE <<>>]
    /\ present = {"img1"}
    /\ \E sl \in 0..MaxSrcLen, sz \in 0..MaxDstLen, bl \in DecodeBufLens :
           dec = [DecIdle EXCEPT !.srclen = sl, !.size = sz, !.buflen = bl]

\* The YUYV arm of stream_read runs on dec's inputs.  The iterator chain
\* reads the source by whole macropixels.
DecodeCall ==
    /\ ~dec.done
    /\ LET r == DecodeRun(dec.srclen, dec.size, dec.buflen)
       IN  dec' = [dec EXCEPT !.done = TRUE, !.written = r.written,
                              !.panic = r.panic,
                              !.read = 4 * (dec.srclen \div 4)]
    /\ UNCHANGED <<cycle, phase, alive, task, wk, lock, iobuf, image, present,
                   streambuf, lastResult, disconnected, released, crashed,
                   blocked, inflight, unitCycle, shown, reshown, lastGood,
                   fourcc, outImage, ctor, unitSize, copied>>

NextDecode == DecodeCall

SpecDecode == InitDecode /\ [][NextDecode]_vars

\* ------------------------------------------------------------ properties
\* Steps of the control thread, and the step that ends a unit.
SpawnStep == phase = "idle" /\ phase' = "spawned"
ReapStep == phase = "spawned" /\ phase' = "idle"
UnitEnds(d) == wk[d] = "io" /\ wk'[d] = "none"

\* A unit is in flight: spawned, its closure not yet finished.
UnitRunning(d) == wk[d] \in {"queued", "io"}

\* The task in the slot has completed.
TaskCompleted(d) == task[d] \in {"Ready", "Taken"}

\* C1: in every reachable state every Device has at most one work unit that
\* was spawned and not yet reaped.
C1_AtMostOneInFlight == \A d \in Devices : inflight[d] <= 1

\* C1 witness: a unit spawned in an earlier cycle is still inside the hardware
\* call after a later cycle's spawn phase has run over its Device.
C1_Witness ==
    \E d \in Devices :
        /\ wk[d] = "io" /\ task[d] = "Pending" /\ inflight[d] = 1
        /\ unitCycle[d] < cycle /\ phase = "spawned"

\* C2 (as claimed): in every spawn phase, every existing Device that is Idle
\* and whose image is present gets a unit spawned, whatever the other Devices
\* are doing.
C2_SpawnIndependent ==
    [][SpawnStep =>
        \A d \in alive :
            (task[d] = "None" /\ ImageFound(d, present)) => task'[d] = "Pending"]_vars

ShowsLastGood(d) == FrameOf(image[ImageOf(d)]) = lastGood[d]

\* C4 (as claimed): once an Input is disconnected and its image shows the last
\* successfully decoded frame, the image keeps showing that frame.
C4_FrozenAtLastGood ==
    [][\A d \in Inputs :
        (d \in disconnected /\ d \in alive /\ ShowsLastGood(d)) =>
            ShowsLastGood(d)']_vars

\* C5 (as claimed): no frame is presented by more than one reap, and no unit
\* is in flight while the working half holds a decoded frame that was never
\* presented.
C5_EachFrameOnce ==
    \A d \in Inputs :
        /\ ~reshown[d]
        /\ (d \in alive /\ UnitRunning(d)) =>
               (FrameOf(iobuf[d]) = 255 \/ FrameOf(iobuf[d]) \in shown[d])

\* C6 (as claimed): a scheduler step that finds a Device's image missing
\* leaves the Device's slot, its working buffer and the image store as they
\* are and does not panic; a reap phase that finds the image present and the
\* unit completed reaps the Device.
C6_MissingImageIsNoOp ==
    [][\A d \in alive :
        /\ ((SpawnStep \/ ReapStep) /\ ~ImageFound(d, present)) =>
               /\ TaskIsSome(task'[d]) = TaskIsSome(task[d])
               /\ iobuf'[d] = iobuf[d]
               /\ image' = image
        /\ (ReapStep /\ ImageFound(d, present) /\ TaskCompleted(d)) =>
               (task'[d] = "None" /\ ~crashed')]_vars

\* C7 (as claimed): a unit whose hardware call fails leaves the working
\* buffer as it was; the next reap (image present) empties the slot; and the
\* spawn phase after that reap (image present) spawns a new unit.
C7_RetryEveryCycle ==
    [][\A d \in alive :
        /\ (UnitEnds(d) /\ lastResult'[d] = "Err") => iobuf'[d] = iobuf[d]
        /\ (ReapStep /\ task[d] = "Ready" /\ lastResult[d] = "Err"
                /\ ImageFound(d, present)) => task'[d] = "None"
        /\ (SpawnStep /\ task[d] = "None" /\ lastResult[d] = "Err"
                /\ ImageFound(d, present)) => task'[d] = "Pending"]_vars

\* C8: the control thread never waits on a Device's lock: whenever the slot
\* holds a completed task (the only case in which the reap phase locks), the
\* lock is free.
C8_ControlThreadNeverBlocks ==
    /\ ~blocked
    /\ \A d \in alive : TaskCompleted(d) => lock[d] = "free"

\* C8 witness: a whole cycle has passed over a Device whose unit is still
\* inside the hardware call, holding the lock.
C8_Witness ==
    \E d \in Devices :
        /\ lock[d] = "worker" /\ wk[d] = "io" /\ d \in alive
        /\ unitCycle[d] < cycle /\ phase = "idle" /\ ~blocked

C10_StreamBeforeDevice ==
    \A d \in Devices :
        /\ released[d] # <<>> => released[d][1] = "stream"
        /\ (\E i \in 1..Len(released[d]) : released[d][i] = "stream") =>
               ~UnitRunning(d)

\* C11 (as claimed): when a unit of an Output has encoded a YUYV frame, the
\* stream buffer's bytesused is size * 3 / 4, size the byte count the unit was
\* spawned with.
C11_BytesUsed ==
    [][\A d \in Outputs :
        (UnitEnds(d) /\ lastResult'[d] = "Ok" /\ Fourcc(d) = "YUYV") =>
            /\ streambuf'[d].field = 0
            /\ streambuf'[d].bytesused * 4 = unitSize[d] * 3]_vars

\* C12 (as claimed): for every source length and every size, the decode loop
\* writes only indices below size and reads no byte beyond the source.
C12_DecodeBounded ==
    dec.done =>
        /\ \A i \in dec.written : i < dec.size
        /\ dec.read <= dec.srclen

\* C13 (as claimed): of every Device the working buffer and the data of the
\* presentable image have the same length, width * height * 4, in every state.
C13_HalvesSameLength ==
    \A d \in alive :
        /\ Len(iobuf[d]) = BufferSize
        /\ Len(image[ImageOf(d)]) = BufferSize

\* C14: a unit of a Device whose format code is not YUYV changes neither the
\* working buffer nor the stream buffer and its metadata; when the hardware
\* call succeeded it ends with Ok, the task completes, and a reap that finds
\* the completed task and its image clears the slot as for any other unit.
C14_UnsupportedFormatNoOp ==
    [][\A d \in Devices :
        Fourcc(d) # "YUYV" =>
            /\ UnitEnds(d) =>
                   /\ iobuf'[d] = iobuf[d]
                   /\ streambuf' = streambuf
                   /\ lastResult'[d] \in {"Ok", "Err"}
                   /\ d \notin disconnected => lastResult'[d] # "Panic"
                   /\ task[d] = "Pending" => task'[d] = "Ready"
            /\ (ReapStep /\ task[d] = "Ready" /\ d \in alive
                    /\ ImageOf(d) \in present /\ ~crashed') =>
                   task'[d] = "None" /\ inflight'[d] = 0]_vars

\* C14 witness: units of an Input and of an Output with an unsupported format
\* ran with a successful hardware call and were reaped; the stream buffer is
\* still untouched.
C14_Witness ==
    \E i \in Inputs, o \in Outputs :
        /\ Fourcc(i) # "YUYV" /\ Fourcc(o) # "YUYV"
        /\ lastResult[i] = "Ok" /\ lastResult[o] = "Ok"
        /\ task[i] = "None" /\ task[o] = "None"
        /\ inflight[i] = 0 /\ inflight[o] = 0
        /\ streambuf[o] = EmptyStreamBuf

\* The alpha bytes of a buffer: those at an index that is 3 modulo 4.
AlphaBytes(buf) == {buf[k] : k \in {j \in 1..Len(buf) : (j - 1) % 4 = 3}}

\* C15: decode writes no alpha byte: in every reachable state, after any
\* number of work units, swaps and copies, every alpha byte of every Device's
\* working buffer and presentable image holds 255.
C15_AlphaUntouched ==
    \A d \in Devices :
        /\ AlphaBytes(iobuf[d]) \subseteq {255}
        /\ AlphaBytes(image[ImageOf(d)]) \subseteq {255}

\* C15 witness: a decoded frame has been swapped into the presentable image
\* and a later one decoded into the working buffer; the alpha bytes of both
\* are there and hold 255.
C15_Witness ==
    \E d \in Inputs :
        /\ FrameOf(image[ImageOf(d)]) # 255
        /\ FrameOf(iobuf[d]) # 255
        /\ FrameOf(iobuf[d]) # FrameOf(image[ImageOf(d)])
        /\ AlphaBytes(iobuf[d]) = {255}
        /\ AlphaBytes(image[ImageOf(d)]) = {255}

\* C16: a constructor call that returns an error creates no Device and adds
\* no image to the store; a Device exists, and the Input's image is in the
\* store, only after its constructor returned Ok.
C16_FailedNewLeavesNothing ==
    [][/\ \A d \in Devices :
              (ctor'[d] = "Err" /\ ctor[d] # "Err") =>
                  /\ alive' = alive
                  /\ image' = image
                  /\ present' = present
       /\ \A d \in Devices : d \in alive' => ctor'[d] = "Ok"
       /\ \A d \in Inputs :
              image'[ImageOf(d)] # <<>> => ctor'[d] = "Ok"]_vars

\* C16 witness: Input::new has returned an error; there is no Device and the
\* image store is empty.
C16_Witness ==
    \E d \in Inputs :
        /\ ctor[d] = "Err"
        /\ alive = {}
        /\ present = {}
        /\ \A h \in Images : image[h] = <<>>

\* C17: the task slot of a Device becomes occupied only in a spawn step and
\* is cleared only in a reap step, and then only when its task had completed;
\* in every state it is occupied exactly when a unit of the Device has been
\* spawned and not yet reaped.
C17_SlotStateMachine ==
    [][\A d \in alive' :
        /\ (~TaskIsSome(task[d]) /\ TaskIsSome(task'[d])) =>
               SpawnStep /\ task'[d] = "Pending"
        /\ (TaskIsSome(task[d]) /\ ~TaskIsSome(task'[d])) =>
               ReapStep /\ TaskCompleted(d)
        /\ TaskIsSome(task[d]) <=> inflight[d] = 1
        /\ TaskIsSome(task'[d]) <=> inflight'[d] = 1]_vars

\* C17 witness: a Device is in its second round of the state machine: a unit
\* was spawned, completed and was reaped, and the slot is occupied again.
C17_Witness ==
    \E d \in Inputs :
        /\ d \in alive
        /\ shown[d] # {}
        /\ task[d] = "Pending" /\ inflight[d] = 1
        /\ unitCycle[d] = cycle /\ cycle >= 2

\* C18 (as claimed): every frame a unit of an Output encodes is the content
\* that a preceding reap of the Device copied from the presentable image.
C18_EncodesReapedCopy ==
    [][\A d \in Outputs :
        (UnitEnds(d) /\ lastResult'[d] = "Ok" /\ Fourcc(d) = "YUYV") =>
            /\ copied[d] # <<>>
            /\ streambuf'[d].data = EncodeYuyv(copied[d])]_vars

\* C18 (amended): a unit of an Output encodes the content the most recent reap
\* of the Device copied from the presentable image, and when no reap of the
\* Device has copied yet, the opaque white buffer Output::new allocated.
C18_EncodesCopyOrInitial ==
    [][\A d \in Outputs :
        (UnitEnds(d) /\ lastResult'[d] = "Ok" /\ Fourcc(d) = "YUYV") =>
            streambuf'[d].data =
                EncodeYuyv(IF copied[d] = <<>> THEN White(BufferSize)
                           ELSE copied[d])]_vars

\* C18 witness: the stream buffer holds the encoding of a captured frame that
\* a reap copied from the presentable image.
C18_Witness ==
    \E d \in Outputs :
        /\ copied[d] # <<>>
        /\ FrameOf(copied[d]) # 255
        /\ lastResult[d] = "Ok"
        /\ streambuf[d].data = EncodeYuyv(copied[d])

\* C19 (as claimed): no reap step polls a task handle whose completion an
\* earlier readiness check has already reported.
C19_NeverPolledAgain ==
    [][\A d \in alive : ReapStep => task[d] # "Taken"]_vars

\* C20 (as claimed): the byte count every unit was spawned with equals the
\* length of its Device's working buffer when the unit runs, and a decode
\* does not run out of the working buffer.
C20_SizeIsBufferLength ==
    [][\A d \in Devices :
        UnitEnds(d) =>
            /\ unitSize[d] = Len(iobuf[d])
            /\ lastResult'[d] # "Panic"]_vars

====
